---- MODULE Spec2Model ----
(***************************************************************************)
(* Model of the aggregation layer of the disease-outbreak dashboard:       *)
(*   calculate_outbreak_trends          (streamlit_app_global.py)          *)
(*   calculate_infectious_cases_trends  (streamlit_app.py)                 *)
(* together with the two loaded tables they are called on.  A table is a   *)
(* record [columns, rows]: the column names in positional order and the    *)
(* rows as functions from column name to cell.                             *)
(***************************************************************************)
EXTENDS Integers, Sequences, FiniteSets, TLC

VARIABLES outbreaks_df,     \* the loaded outbreak table
          infectiouscases,  \* the loaded infectious-case table
          call,             \* arguments of the aggregator call of this script run
          result            \* what that call returned or raised

vars == <<outbreaks_df, infectiouscases, call, result>>

----------------------------------------------------------------------------
(* Bounds of the model *)

MaxYearOffset == 1      \* the years of the model are 2015 .. 2015 + MaxYearOffset
MaxOutbreakRows == 2    \* largest outbreak table
MaxCaseRows == 2        \* largest infectious-case table

Years == 2015 .. (2015 + MaxYearOffset)

----------------------------------------------------------------------------
(* Values *)

\* a missing string cell (Disease, icd10c, icd11c1)
NA == "NaN"
\* a missing numeric cell; a present count v is the one-element sequence <<v>>
NaN == << >>
\* Python's None for the optional disease_condition
None == "None"

\* pd.to_datetime(df['Year'].astype(str) + "-01-01"): January 1 of the year
to_datetime(year) == [y |-> year, m |-> 1, d |-> 1]

\* pd.to_datetime(start_date).year
year_of(date) == date.y

\* a <= b on calendar dates
DateLE(a, b) ==
    \/ a.y < b.y
    \/ a.y = b.y /\ a.m < b.m
    \/ a.y = b.y /\ a.m = b.m /\ a.d <= b.d

\* the dates a caller passes: the first and the last day of each year
DateInputs == { [y |-> yy, m |-> md[1], d |-> md[2]] :
                    yy \in Years, md \in { <<1, 1>>, <<12, 31>> } }

----------------------------------------------------------------------------
(* Series helpers *)

Range(s) == { s[i] : i \in DOMAIN s }

\* the column c of a sequence of rows
Column(rows, c) == [i \in DOMAIN rows |-> rows[i][c]]

RECURSIVE SumInts(_)
SumInts(s) == IF s = << >> THEN 0 ELSE Head(s) + SumInts(Tail(s))

\* Series.nunique(): the number of distinct values, missing ones dropped
nunique(s) == Cardinality(Range(s) \ {NA})

\* Series.unique(): the distinct values in order of first appearance, missing kept
RECURSIVE unique(_)
unique(s) ==
    IF s = << >> THEN << >>
    ELSE LET init == unique(SubSeq(s, 1, Len(s) - 1))
             last == s[Len(s)]
         IN  IF last \in Range(init) THEN init ELSE Append(init, last)

\* Series.value_counts().to_dict(): each non-missing value to its number of rows
value_counts(s) ==
    [v \in Range(s) \ {NA} |-> Cardinality({ i \in DOMAIN s : s[i] = v })]

\* df.groupby(key).size().to_dict(): each key present to its number of rows
groupby_size(keys) ==
    [k \in Range(keys) |-> Cardinality({ i \in DOMAIN keys : keys[i] = k })]

----------------------------------------------------------------------------
(* calculate_outbreak_trends, streamlit_app_global.py *)

\* variant: the end of the date range taken as exclusive
outbreak_mask_exclusive_end(r, countries, start_date, end_date) ==
    /\ r.Country \in countries
    /\ DateLE(start_date, r.date)
    /\ DateLE(r.date, end_date) /\ r.date # end_date

\* the boolean mask of df_filtered: Country isin countries, date in [start, end]
outbreak_mask(r, countries, start_date, end_date) ==
    /\ r.Country \in countries
    /\ DateLE(start_date, r.date)
    /\ DateLE(r.date, end_date)

\* variant: one key per year of the requested range, zero-filled
yearly_outbreak_trend_zero_filled(df_filtered, start_date, end_date) ==
    [yy \in year_of(start_date) .. year_of(end_date) |->
        Cardinality({ i \in DOMAIN df_filtered : year_of(df_filtered[i].date) = yy })]

\* df_filtered.groupby(df_filtered['date'].dt.year).size().to_dict()
yearly_outbreak_trend_of(df_filtered, start_date, end_date) ==
    groupby_size([i \in DOMAIN df_filtered |-> year_of(df_filtered[i].date)])

\* the statistics of the filtered rows
outbreak_stats_of(df, countries, start_date, end_date) ==
    LET Keep(r) == outbreak_mask(r, countries, start_date, end_date)
        df_filtered == SelectSeq(df.rows, Keep)
        Disease == Column(df_filtered, "Disease")
    IN  [ kind |-> "ok",
          total_unique_outbreaks |-> nunique(Disease),
          unique_diseases_list |-> unique(Disease),
          frequency_of_each_disease |-> value_counts(Disease),
          icd10_categories_count |-> nunique(Column(df_filtered, "icd10c")),
          icd11_categories_count |-> nunique(Column(df_filtered, "icd11c1")),
          yearly_outbreak_trend |->
              yearly_outbreak_trend_of(df_filtered, start_date, end_date) ]

\* variant: the arguments are validated and a bad filter is rejected
calculate_outbreak_trends_validating(df, countries, start_date, end_date) ==
    IF countries = {} \/ ~DateLE(start_date, end_date)
    THEN [kind |-> "ValueError", name |-> "filter"]
    ELSE outbreak_stats_of(df, countries, start_date, end_date)

calculate_outbreak_trends(df, countries, start_date, end_date) ==
    outbreak_stats_of(df, countries, start_date, end_date)

----------------------------------------------------------------------------
(* calculate_infectious_cases_trends, streamlit_app.py *)

\* the dtype pandas gives a column of the case table: Entity and Code are
\* text, Year is integral, date is the datetime column of line 20, and every
\* other column holds case counts that may be missing
dtype(c) ==
    CASE c \in {"Entity", "Code"} -> "object"
      [] c = "Year"               -> "int64"
      [] c = "date"               -> "datetime64"
      [] OTHER                    -> "float64"

is_numeric(c) == dtype(c) \in {"int64", "float64"}

\* df['date'] = pd.to_datetime(df['Year'].astype(str) + "-01-01"), an
\* assignment into the caller's table: a new last column the first time,
\* the same column overwritten afterwards
assign_date(df) ==
    [ columns |-> IF "date" \in Range(df.columns) THEN df.columns
                  ELSE Append(df.columns, "date"),
      rows |-> [i \in DOMAIN df.rows |->
                  [c \in DOMAIN df.rows[i] \cup {"date"} |->
                      IF c = "date" THEN to_datetime(df.rows[i].Year)
                      ELSE df.rows[i][c]]] ]

\* variant: the lower end of the date range taken as exclusive
case_mask_exclusive_start(r, entity, start_date, end_date) ==
    /\ r.Entity = entity
    /\ DateLE(start_date, r.date) /\ r.date # start_date
    /\ DateLE(r.date, end_date)

\* the boolean mask of df_filtered: Entity == entity, date in [start, end]
case_mask(r, entity, start_date, end_date) ==
    /\ r.Entity = entity
    /\ DateLE(start_date, r.date)
    /\ DateLE(r.date, end_date)

\* Series.sum(skipna=True) by dtype: counts add up with missing ones skipped,
\* text concatenates (0 when there is none)
series_sum(rows, c) ==
    CASE dtype(c) = "float64" ->
             SumInts([i \in DOMAIN rows |->
                        IF rows[i][c] = NaN THEN 0 ELSE rows[i][c][1]])
      [] dtype(c) = "int64"   -> SumInts(Column(rows, c))
      [] OTHER                -> IF rows = << >> THEN 0 ELSE Column(rows, c)

\* Series.isna().sum(): only count columns hold missing cells
isna_sum(rows, c) ==
    IF dtype(c) = "float64"
    THEN Cardinality({ i \in DOMAIN rows : rows[i][c] = NaN })
    ELSE 0

\* df_filtered.iloc[:, 3:]: the columns after the first three, by position
iloc_3(columns) == Range(SubSeq(columns, 4, Len(columns)))

\* variant: the number of entries instead of their sum
sum_values_len(m) == Cardinality(DOMAIN m)

\* sum(total_cases_per_disease.values())
RECURSIVE sum_values(_)
sum_values(m) ==
    IF DOMAIN m = {} THEN 0
    ELSE LET k == CHOOSE k \in DOMAIN m : TRUE
         IN  m[k] + sum_values([j \in DOMAIN m \ {k} |-> m[j]])

\* variant: range(start_year, end_year), the last year left out
all_years_exclusive(start_year, end_year) == start_year .. (end_year - 1)

\* set(range(start_year, end_year + 1))
all_years_of(start_year, end_year) == start_year .. end_year

calculate_infectious_cases_trends(df0, entity, start_date, end_date, disease_condition) ==
    LET start_year == year_of(start_date)
        end_year == year_of(end_date)
        df == assign_date(df0)
        Keep(r) == case_mask(r, entity, start_date, end_date)
        df_filtered == SelectSeq(df.rows, Keep)
        filtered_years == Range(Column(df_filtered, "Year"))
        all_years == all_years_of(start_year, end_year)
        missing_years == all_years \ filtered_years
        OfYear(yy) == LET In(r) == r.Year = yy IN SelectSeq(df_filtered, In)
    IN  IF disease_condition # None
        THEN IF disease_condition \notin Range(df.columns)
             THEN [kind |-> "ValueError", name |-> disease_condition]
             ELSE IF dtype(disease_condition) = "datetime64"
             THEN [kind |-> "TypeError", name |-> disease_condition]
             ELSE [ kind |-> "ok",
                    total_cases_per_disease |->
                        [c \in {disease_condition} |-> series_sum(df_filtered, c)],
                    total_cases_overall |-> series_sum(df_filtered, disease_condition),
                    missing_data_flag |-> Cardinality(missing_years) > 0,
                    missing_years |-> missing_years,
                    missing_data_per_disease |->
                        [c \in {disease_condition} |-> isna_sum(df_filtered, c)],
                    yearly_disease_trends |->
                        [yy \in filtered_years |->
                            series_sum(OfYear(yy), disease_condition)] ]
        ELSE LET total_cases_per_disease ==
                     [c \in { x \in iloc_3(df.columns) : is_numeric(x) } |->
                         series_sum(df_filtered, c)]
             IN  [ kind |-> "ok",
                   total_cases_per_disease |-> total_cases_per_disease,
                   total_cases_overall |-> sum_values(total_cases_per_disease),
                   missing_data_flag |-> Cardinality(missing_years) > 0,
                   missing_years |-> missing_years,
                   missing_data_per_disease |->
                       [c \in iloc_3(df.columns) |-> isna_sum(df_filtered, c)],
                   yearly_disease_trends |->
                       [yy \in filtered_years |->
                           [c \in { x \in Range(df.columns) :
                                      is_numeric(x) /\ x # "Year" } |->
                               series_sum(OfYear(yy), c)]] ]

----------------------------------------------------------------------------
(* The loaded tables *)

\* sequences over S of length at most n
SeqsUpTo(S, n) == UNION { [1..k -> S] : k \in 0..n }

\* the rows come in the order of the file, which lists them by Rank
InFileOrder(rs, Rank(_)) ==
    \A i \in 1 .. (Len(rs) - 1) : Rank(rs[i]) <= Rank(rs[i + 1])

Countries == {"Brazil", "India"}

\* Disease with its icd10c and icd11c1 codes; the last one is a row whose
\* three cells are missing
DiseaseCodes == { <<"Zika", "A92", "1D43">>,
                  <<"Cholera", "A00", "1A00">>,
                  <<NA, NA, NA>> }

\* load_data / load_outbreak_data: the rows of Outbreaks.csv with the date
\* column added from Year
OutbreakRows ==
    { [Country |-> c, Disease |-> dc[1], Year |-> yy,
       icd10c |-> dc[2], icd11c1 |-> dc[3], date |-> to_datetime(yy)] :
          c \in Countries, dc \in DiseaseCodes, yy \in Years }

OutbreakColumns == <<"Country", "Disease", "Year", "icd10c", "icd11c1", "date">>

\* Outbreaks.csv lists its rows by year, then country, then disease
OutbreakRank(r) ==
    (r.Year * 100)
    + (IF r.Country = "Brazil" THEN 0 ELSE 10)
    + (CASE r.Disease = "Cholera" -> 0 [] r.Disease = "Zika" -> 1 [] OTHER -> 2)

OutbreakTables ==
    { [columns |-> OutbreakColumns, rows |-> rs] :
          rs \in { t \in SeqsUpTo(OutbreakRows, MaxOutbreakRows) :
                      InFileOrder(t, OutbreakRank) } }

Entities == {"India", "Kenya"}

CodeOf(e) == IF e = "India" THEN "IND" ELSE "KEN"

\* the counts of one row: polio and rabies, either of which may be missing
CaseCounts == { <<(<<120>>), NaN>>, <<NaN, (<<3>>)>> }

\* load_infectious_cases_data: the rows of infectiouscases.csv as read
CaseRows ==
    { [Entity |-> e, Code |-> CodeOf(e), Year |-> yy,
       polio |-> pr[1], rabies |-> pr[2]] :
          e \in Entities, yy \in Years, pr \in CaseCounts }

CaseColumns == <<"Entity", "Code", "Year", "polio", "rabies">>

\* infectiouscases.csv lists its rows by entity, then year
CaseRank(r) ==
    (IF r.Entity = "India" THEN 0 ELSE 100000)
    + (r.Year * 10)
    + (IF r.rabies = NaN THEN 0 ELSE 1)

CaseTables ==
    { [columns |-> CaseColumns, rows |-> rs] :
          rs \in { t \in SeqsUpTo(CaseRows, MaxCaseRows) :
                      InFileOrder(t, CaseRank) } }

\* the tables of the end-to-end scenarios
ScenarioOutbreaks ==
    LET zika == [Country |-> "Brazil", Disease |-> "Zika", Year |-> 2016,
                 icd10c |-> "A92", icd11c1 |-> "1D43", date |-> to_datetime(2016)]
    IN  [columns |-> OutbreakColumns, rows |-> <<zika, zika>>]

ScenarioCases ==
    [columns |-> CaseColumns,
     rows |-> << [Entity |-> "India", Code |-> "IND", Year |-> 2015,
                  polio |-> <<120>>, rabies |-> NaN] >>]

\* the values of the optional disease_condition a caller passes
DiseaseInputs == {None, "polio", "rabies", "malaria", "Entity", "Year", "date"}

----------------------------------------------------------------------------
(* The session *)

NoCall == [fn |-> "none"]
NoResult == [kind |-> "none"]

\* the state when both tables are loaded and no query has run
Init ==
    /\ \/ outbreaks_df \in OutbreakTables /\ infectiouscases = ScenarioCases
       \/ outbreaks_df = ScenarioOutbreaks /\ infectiouscases \in CaseTables
    /\ call = NoCall
    /\ result = NoResult

\* a script run that calls calculate_outbreak_trends
OutbreakQuery ==
    \E countries \in SUBSET Countries, start_date \in DateInputs, end_date \in DateInputs :
        /\ call = NoCall
        /\ call' = [fn |-> "calculate_outbreak_trends", countries |-> countries,
                    start_date |-> start_date, end_date |-> end_date]
        /\ result' = calculate_outbreak_trends(outbreaks_df, countries, start_date, end_date)
        /\ UNCHANGED <<outbreaks_df, infectiouscases>>

\* a script run that calls calculate_infectious_cases_trends; line 20 has
\* assigned the date column into the table whether the call returns or raises
CaseQuery ==
    \E entity \in Entities, start_date \in DateInputs, end_date \in DateInputs,
       disease_condition \in DiseaseInputs :
        /\ call = NoCall
        /\ call' = [fn |-> "calculate_infectious_cases_trends", entity |-> entity,
                    start_date |-> start_date, end_date |-> end_date,
                    disease_condition |-> disease_condition]
        /\ result' = calculate_infectious_cases_trends(
                         infectiouscases, entity, start_date, end_date, disease_condition)
        /\ infectiouscases' = assign_date(infectiouscases)
        /\ UNCHANGED outbreaks_df

\* the script run ends: its locals (outbreak_stats, result) are gone and the
\* next interaction starts a new run over the same cached tables
EndRun ==
    /\ call # NoCall
    /\ call' = NoCall
    /\ result' = NoResult
    /\ UNCHANGED <<outbreaks_df, infectiouscases>>

Next == OutbreakQuery \/ CaseQuery \/ EndRun

\* a session over any loaded tables, that runs both aggregators
Spec == Init /\ [][Next]_vars

\* the outbreak dashboard over every outbreak table
InitOutbreaks ==
    /\ outbreaks_df \in OutbreakTables
    /\ infectiouscases = ScenarioCases
    /\ call = NoCall
    /\ result = NoResult

NextOutbreaks == OutbreakQuery \/ EndRun

SpecOutbreaks == InitOutbreaks /\ [][NextOutbreaks]_vars

\* the infectious-case analysis over every case table
InitCases ==
    /\ outbreaks_df = ScenarioOutbreaks
    /\ infectiouscases \in CaseTables
    /\ call = NoCall
    /\ result = NoResult

NextCases == CaseQuery \/ EndRun

SpecCases == InitCases /\ [][NextCases]_vars

----------------------------------------------------------------------------
(* What the claims are stated with *)

IsOutbreakCall == call.fn = "calculate_outbreak_trends"
IsCaseCall == call.fn = "calculate_infectious_cases_trends"

\* the sum of the values of a mapping
RECURSIVE Total(_)
Total(m) ==
    IF DOMAIN m = {} THEN 0
    ELSE LET k == CHOOSE k \in DOMAIN m : TRUE
         IN  m[k] + Total([j \in DOMAIN m \ {k} |-> m[j]])

\* the rows of the outbreak table the call asks for, by position
WantedOutbreakRows ==
    { i \in DOMAIN outbreaks_df.rows :
        /\ outbreaks_df.rows[i].Country \in call.countries
        /\ DateLE(call.start_date, outbreaks_df.rows[i].date)
        /\ DateLE(outbreaks_df.rows[i].date, call.end_date) }

\* the rows of the case table the call asks for, by position
WantedCaseRows ==
    { i \in DOMAIN infectiouscases.rows :
        /\ infectiouscases.rows[i].Entity = call.entity
        /\ DateLE(call.start_date, to_datetime(infectiouscases.rows[i].Year))
        /\ DateLE(to_datetime(infectiouscases.rows[i].Year), call.end_date) }

WantedCaseYears == { infectiouscases.rows[i].Year : i \in WantedCaseRows }

\* the disease-count columns: the columns of the case table as loaded, after
\* the first three
DiseaseColumns == Range(SubSeq(CaseColumns, 4, Len(CaseColumns)))

\* the sum of column c over the wanted case rows, missing counts left out
WantedSum(c) ==
    Total([i \in { j \in WantedCaseRows : infectiouscases.rows[j][c] # NaN } |->
              infectiouscases.rows[i][c][1]])

\* the number of wanted case rows whose column c is missing
WantedMissing(c) ==
    Cardinality({ i \in WantedCaseRows : infectiouscases.rows[i][c] = NaN })

----------------------------------------------------------------------------
(* Claims about calculate_outbreak_trends *)

\* C1: frequency_of_each_disease has exactly the distinct Disease values of
\* the rows with Country in countries and startDate <= date <= endDate as its
\* keys, each mapped to the number of those rows, and it has
\* total_unique_outbreaks keys.
C1_FrequencyOfEachDisease ==
    IsOutbreakCall =>
        LET rows == outbreaks_df.rows
            diseases == { rows[i].Disease : i \in WantedOutbreakRows } \ {NA}
            freq == result.frequency_of_each_disease
        IN  /\ result.kind = "ok"
            /\ DOMAIN freq = diseases
            /\ \A d \in diseases :
                  freq[d] = Cardinality({ i \in WantedOutbreakRows : rows[i].Disease = d })
            /\ Cardinality(DOMAIN freq) = result.total_unique_outbreaks

\* C1 witness: a call that filters some country out and finds a disease twice
C1_Witness ==
    /\ IsOutbreakCall
    /\ call.countries # Countries
    /\ result.kind = "ok"
    /\ \E d \in DOMAIN result.frequency_of_each_disease :
          result.frequency_of_each_disease[d] = 2

\* C2: yearly_outbreak_trend maps each year that has a filtered row to the
\* number of filtered rows of that year, has no key for a year without one,
\* and its values sum to the number of filtered rows.
C2_YearlyOutbreakTrend ==
    IsOutbreakCall =>
        LET rows == outbreaks_df.rows
            trend == result.yearly_outbreak_trend
        IN  /\ result.kind = "ok"
            /\ DOMAIN trend = { year_of(rows[i].date) : i \in WantedOutbreakRows }
            /\ \A yy \in DOMAIN trend :
                  /\ trend[yy] > 0
                  /\ trend[yy] = Cardinality({ i \in WantedOutbreakRows :
                                                 year_of(rows[i].date) = yy })
            /\ Total(trend) = Cardinality(WantedOutbreakRows)

\* C2 witness: a year of the requested range has rows and another has none
C2_Witness ==
    /\ IsOutbreakCall
    /\ result.kind = "ok"
    /\ DOMAIN result.yearly_outbreak_trend # {}
    /\ \E yy \in year_of(call.start_date) .. year_of(call.end_date) :
          yy \notin DOMAIN result.yearly_outbreak_trend

\* C7: with an empty set of countries or with startDate > endDate the call
\* raises nothing and returns the empty-filter result: zero counts, empty
\* list, empty mappings.
C7_EmptyFilterResult ==
    (IsOutbreakCall /\ (call.countries = {} \/ ~DateLE(call.start_date, call.end_date)))
        => /\ result.kind = "ok"
           /\ result.total_unique_outbreaks = 0
           /\ result.unique_diseases_list = << >>
           /\ DOMAIN result.frequency_of_each_disease = {}
           /\ result.icd10_categories_count = 0
           /\ result.icd11_categories_count = 0
           /\ DOMAIN result.yearly_outbreak_trend = {}

\* C7 witness: every country asked for over a table that has rows, with the
\* start date after the end date
C7_Witness ==
    /\ IsOutbreakCall
    /\ outbreaks_df.rows # << >>
    /\ call.countries = Countries
    /\ ~DateLE(call.start_date, call.end_date)
    /\ result.kind = "ok"

----------------------------------------------------------------------------
(* Claims about calculate_infectious_cases_trends *)

\* C3: a call with a disease_condition that is given but is no disease-count
\* column fails with the InvalidParameter error (ValueError) that carries the
\* name, also for the names of the other columns (Entity, Year, date).
C3_UnknownDiseaseRejected ==
    (IsCaseCall /\ call.disease_condition # None
                /\ call.disease_condition \notin DiseaseColumns)
        => /\ result.kind = "ValueError"
           /\ result.name = call.disease_condition

\* C4: no call of either aggregator changes a loaded table: same columns in
\* the same order, same cells.
C4_TablesNeverWritten ==
    [][outbreaks_df' = outbreaks_df /\ infectiouscases' = infectiouscases]_vars

\* C5: of a call that returns, missing_years lies within
\* start_date.year .. end_date.year, shares no year with the filtered rows,
\* covers the range together with them, and missing_data_flag is true
\* exactly when missing_years is not empty.
C5_MissingYears ==
    (IsCaseCall /\ result.kind = "ok") =>
        LET range == year_of(call.start_date) .. year_of(call.end_date)
        IN  /\ result.missing_years \subseteq range
            /\ result.missing_years \cap WantedCaseYears = {}
            /\ range \subseteq (result.missing_years \cup WantedCaseYears)
            /\ result.missing_data_flag <=> (result.missing_years # {})

\* C5 witness: a returned call with a year present and a year missing
C5_Witness ==
    /\ IsCaseCall
    /\ result.kind = "ok"
    /\ result.missing_years # {}
    /\ WantedCaseYears # {}

\* C6: without a disease_condition, total_cases_per_disease and
\* missing_data_per_disease both have exactly the disease-count columns as
\* keys, with the column's sum and its number of missing entries over the
\* filtered rows.
C6_AllDiseasesKeys ==
    (IsCaseCall /\ call.disease_condition = None)
        => /\ result.kind = "ok"
           /\ DOMAIN result.total_cases_per_disease = DiseaseColumns
           /\ DOMAIN result.missing_data_per_disease = DiseaseColumns
           /\ \A c \in DiseaseColumns :
                 /\ result.total_cases_per_disease[c] = WantedSum(c)
                 /\ result.missing_data_per_disease[c] = WantedMissing(c)

\* C8: with a recognized disease_condition d, total_cases_per_disease is
\* {d: the sum of column d over the rows of the entity dated within
\* [startDate, endDate], missing values left out} and
\* missing_data_per_disease is {d: the number of those rows whose d is
\* missing}.
C8_SingleDisease ==
    (IsCaseCall /\ call.disease_condition \in DiseaseColumns)
        => /\ result.kind = "ok"
           /\ result.total_cases_per_disease =
                 [c \in {call.disease_condition} |-> WantedSum(c)]
           /\ result.missing_data_per_disease =
                 [c \in {call.disease_condition} |-> WantedMissing(c)]

\* C8 witness: every filtered value of the disease is missing
C8_Witness ==
    /\ IsCaseCall
    /\ call.disease_condition = "rabies"
    /\ result.kind = "ok"
    /\ WantedCaseRows # {}
    /\ result.total_cases_per_disease["rabies"] = 0
    /\ result.missing_data_per_disease["rabies"] = Cardinality(WantedCaseRows)

\* C9: of a call that returns, total_cases_overall is the sum of the values
\* of total_cases_per_disease (the one value, when there is one entry).
C9_OverallIsSumOfPerDisease ==
    (IsCaseCall /\ result.kind = "ok") =>
        LET per == result.total_cases_per_disease
        IN  IF Cardinality(DOMAIN per) = 1
            THEN \A c \in DOMAIN per : result.total_cases_overall = per[c]
            ELSE result.total_cases_overall = Total(per)

\* C9 witness: no disease_condition, two columns with cases in the range
C9_Witness ==
    /\ IsCaseCall
    /\ call.disease_condition = None
    /\ result.kind = "ok"
    /\ \A c \in DiseaseColumns : result.total_cases_per_disease[c] > 0
    /\ result.total_cases_overall > 0

\* C10: with startDate <= endDate, a year is reported in missing_years only
\* if the table holds no row of the entity for that year.
C10_MissingOnlyIfNoRow ==
    (IsCaseCall /\ result.kind = "ok" /\ DateLE(call.start_date, call.end_date))
        => \A yy \in result.missing_years :
              ~ \E i \in DOMAIN infectiouscases.rows :
                    /\ infectiouscases.rows[i].Entity = call.entity
                    /\ infectiouscases.rows[i].Year = yy

====
